---- MODULE Spec2Model ----
(***************************************************************************)
(* Thingies and widgets of the zsh line editor (Src/Zle/zle_thingy.c).     *)
(*                                                                         *)
(* A thingy is a reference-counted name record in the hash table           *)
(* thingytab; a widget is an editing action owned by the circular list of  *)
(* thingies that name it.  The model keeps both as heaps: thingytab maps   *)
(* the names that currently have a node to that node, widgets maps the     *)
(* addresses that are currently allocated to the widget stored there.  A   *)
(* pointer to a thingy is the name of its node, a pointer to a widget is   *)
(* its address; fields of a node that the code leaves alone (the widget    *)
(* and samew pointers of a disabled thingy) keep their stale values.  Of   *)
(* a widget's payload the model keeps the function name of a user-defined  *)
(* widget; the native function pointer and the two strings of a completion *)
(* widget are copied and freed but read by no operation of this file.      *)
(***************************************************************************)
EXTENDS Integers, Sequences, FiniteSets, TLC

(***************************************************************************)
(* Bounds of the model.                                                    *)
(***************************************************************************)
MaxLeak == 1         \* references the registry holds beyond its owners', in all
MaxRegLeak == 0      \* the same, in the specification of the sound registry
MaxDepth == 1        \* nesting depth of widget invocations in flight
MaxArgs == 2         \* option words following the widget name in an invocation
MaxOpts == 2         \* options set at once in a zle command
MaxCmdArgs == 4      \* arguments of a zle command

Names == {"a", ".a", ".b"}
FuncNames == {"myfunc"}
\* widget addresses: every name can own a widget, and zle -N and zle -C
\* allocate the new widget before the name lets go of its old one
WidgetIds == 1..(Cardinality(Names) + 1)

NULLT == "NULL"      \* the null Thingy pointer
NULLW == 0           \* the null Widget pointer

\* name[0] == '.'
IsDotted(nam) == nam \in {".a", ".b", "..a", "..b"}

\* dotn[0] = '.'; strcpy(dotn + 1, name)  /  dyncat(".", nam)
dotn(nam) == CASE nam = "a" -> ".a" [] nam = ".a" -> "..a" [] OTHER -> "..b"

VARIABLES thingytab, widgets, zleactive, incompctlfunc, incompfunc,
          sfcontext, zmod, curkeymapname, stack,
          nwatch, watch_fds, watch_funcs, cmd, unloaded

vars == <<thingytab, widgets, zleactive, incompctlfunc, incompfunc,
          sfcontext, zmod, curkeymapname, stack,
          nwatch, watch_fds, watch_funcs, cmd, unloaded>>

(***************************************************************************)
(* Hash table and reference counting.  An operator that changes the heap   *)
(* takes it as h = [t |-> thingy table, w |-> widget store] and returns    *)
(* the new one.                                                            *)
(***************************************************************************)
Heap == [t |-> thingytab, w |-> widgets]

RemoveKey(f, k) == [x \in DOMAIN f \ {k} |-> f[x]]
AddKey(f, k, v) == [x \in DOMAIN f \cup {k} |-> IF x = k THEN v ELSE f[x]]

\* gethashnode2: the node of that name, disabled or not
getnode2(h, nam) == IF nam \in DOMAIN h.t THEN nam ELSE NULLT

\* gethashnode: the node of that name unless it has the DISABLED flag
getnode(h, nam) ==
    IF nam \in DOMAIN h.t /\ "DISABLED" \notin h.t[nam].flags THEN nam ELSE NULLT

\* zshcalloc, then flags = DISABLED
makethingynode ==
    [flags |-> {"DISABLED"}, rc |-> 0, widget |-> NULLW, samew |-> NULLT]

\* refthingy without th->rc++
refthingy_skip(h, th) == h

refthingy(h, th) ==
    IF th # NULLT THEN [h EXCEPT !.t[th].rc = @ + 1] ELSE h

\* if(th && !--th->rc) freenode(removenode(thingytab, th->nam))
unrefthingy(h, th) ==
    IF th # NULLT /\ h.t[th].rc - 1 = 0
    THEN [h EXCEPT !.t = RemoveKey(@, th)]
    ELSE IF th # NULLT THEN [h EXCEPT !.t[th].rc = @ - 1] ELSE h

\* the heap after rthingy(nam); the pointer it returns is nam
rthingy(h, nam) ==
    IF getnode2(h, nam) = NULLT
    THEN refthingy([h EXCEPT !.t = AddKey(@, nam, makethingynode)], nam)
    ELSE refthingy(h, nam)

\* the heap after rthingy_nocreate(nam); it returns NULL when there is no node
rthingy_nocreate(h, nam) ==
    IF getnode2(h, nam) = NULLT THEN h ELSE refthingy(h, nam)

(***************************************************************************)
(* Widgets.                                                                *)
(***************************************************************************)
freewidget(h, w) == [h EXCEPT !.w = RemoveKey(@, w)]

\* for(p = w->first; p->samew != t; p = p->samew) ;
\* fuel bounds the walk; NULLT is returned when it does not end
RECURSIVE findpred(_, _, _, _)
findpred(h, p, t, fuel) ==
    IF fuel = 0 \/ p \notin DOMAIN h.t THEN NULLT
    ELSE IF h.t[p].samew = t THEN p
    ELSE findpred(h, h.t[p].samew, t, fuel - 1)

\* unbindwidget without the test of TH_IMMORTAL
unbindwidget_unprotected(h, t, override) ==
    IF "DISABLED" \in h.t[t].flags THEN [h |-> h, ret |-> 0]
    ELSE LET w == h.t[t].widget
             h1 == IF h.t[t].samew = t
                   THEN freewidget(h, w)
                   ELSE LET p == findpred(h, h.w[w].first, t, Cardinality(Names))
                        IN  [h EXCEPT !.w[w].first = p,
                                      !.t[p].samew = h.t[t].samew]
             h2 == [h1 EXCEPT !.t[t].flags = (@ \ {"TH_IMMORTAL"}) \cup {"DISABLED"}]
         IN  [h |-> unrefthingy(h2, t), ret |-> 0]

\* unbindwidget without w->first = p
unbindwidget_keepfirst(h, t, override) ==
    IF "DISABLED" \in h.t[t].flags THEN [h |-> h, ret |-> 0]
    ELSE IF ~override /\ "TH_IMMORTAL" \in h.t[t].flags THEN [h |-> h, ret |-> -1]
    ELSE LET w == h.t[t].widget
             h1 == IF h.t[t].samew = t
                   THEN freewidget(h, w)
                   ELSE LET p == findpred(h, h.w[w].first, t, Cardinality(Names))
                        IN  [h EXCEPT !.t[p].samew = h.t[t].samew]
             h2 == [h1 EXCEPT !.t[t].flags = (@ \ {"TH_IMMORTAL"}) \cup {"DISABLED"}]
         IN  [h |-> unrefthingy(h2, t), ret |-> 0]

\* unbindwidget without t->flags &= ~TH_IMMORTAL
unbindwidget_keepimmortal(h, t, override) ==
    IF "DISABLED" \in h.t[t].flags THEN [h |-> h, ret |-> 0]
    ELSE IF ~override /\ "TH_IMMORTAL" \in h.t[t].flags THEN [h |-> h, ret |-> -1]
    ELSE LET w == h.t[t].widget
             h1 == IF h.t[t].samew = t
                   THEN freewidget(h, w)
                   ELSE LET p == findpred(h, h.w[w].first, t, Cardinality(Names))
                        IN  [h EXCEPT !.w[w].first = p,
                                      !.t[p].samew = h.t[t].samew]
             h2 == [h1 EXCEPT !.t[t].flags = @ \cup {"DISABLED"}]
         IN  [h |-> unrefthingy(h2, t), ret |-> 0]

unbindwidget(h, t, override) ==
    IF "DISABLED" \in h.t[t].flags THEN [h |-> h, ret |-> 0]
    ELSE IF ~override /\ "TH_IMMORTAL" \in h.t[t].flags THEN [h |-> h, ret |-> -1]
    ELSE LET w == h.t[t].widget
             h1 == IF h.t[t].samew = t
                   THEN freewidget(h, w)
                   ELSE LET p == findpred(h, h.w[w].first, t, Cardinality(Names))
                        IN  [h EXCEPT !.w[w].first = p,
                                      !.t[p].samew = h.t[t].samew]
             h2 == [h1 EXCEPT !.t[t].flags = (@ \ {"TH_IMMORTAL"}) \cup {"DISABLED"}]
         IN  [h |-> unrefthingy(h2, t), ret |-> 0]

\* bindwidget without unbindwidget(t, 1) for a name bound elsewhere
bindwidget_nounbind(h, w, t) ==
    IF "TH_IMMORTAL" \in h.t[t].flags
    THEN [h |-> unrefthingy(h, t), ret |-> -1]
    ELSE IF "DISABLED" \notin h.t[t].flags /\ h.t[t].widget = w
    THEN [h |-> h, ret |-> 0]
    ELSE LET f  == h.w[w].first
             h2 == IF f # NULLT
                   THEN [h EXCEPT !.t[t].samew = h.t[f].samew,
                                  !.t[f].samew = t]
                   ELSE [h EXCEPT !.w[w].first = t,
                                  !.t[t].samew = t]
         IN  [h |-> [h2 EXCEPT !.t[t].widget = w,
                               !.t[t].flags = @ \ {"DISABLED"}],
              ret |-> 0]

\* bindwidget without w->first->samew = t
bindwidget_nolink(h, w, t) ==
    IF "TH_IMMORTAL" \in h.t[t].flags
    THEN [h |-> unrefthingy(h, t), ret |-> -1]
    ELSE IF "DISABLED" \notin h.t[t].flags /\ h.t[t].widget = w
    THEN [h |-> h, ret |-> 0]
    ELSE LET h1 == IF "DISABLED" \notin h.t[t].flags
                   THEN unbindwidget(h, t, TRUE).h ELSE h
             f  == h1.w[w].first
             h2 == IF f # NULLT
                   THEN [h1 EXCEPT !.t[t].samew = h1.t[f].samew]
                   ELSE [h1 EXCEPT !.w[w].first = t,
                                   !.t[t].samew = t]
         IN  [h |-> [h2 EXCEPT !.t[t].widget = w,
                               !.t[t].flags = @ \ {"DISABLED"}],
              ret |-> 0]

\* bindwidget without the unrefthingy(t) of its protected exit
bindwidget_keepref(h, w, t) ==
    IF "TH_IMMORTAL" \in h.t[t].flags
    THEN [h |-> h, ret |-> -1]
    ELSE IF "DISABLED" \notin h.t[t].flags /\ h.t[t].widget = w
    THEN [h |-> h, ret |-> 0]
    ELSE LET h1 == IF "DISABLED" \notin h.t[t].flags
                   THEN unbindwidget(h, t, TRUE).h ELSE h
             f  == h1.w[w].first
             h2 == IF f # NULLT
                   THEN [h1 EXCEPT !.t[t].samew = h1.t[f].samew,
                                   !.t[f].samew = t]
                   ELSE [h1 EXCEPT !.w[w].first = t,
                                   !.t[t].samew = t]
         IN  [h |-> [h2 EXCEPT !.t[t].widget = w,
                               !.t[t].flags = @ \ {"DISABLED"}],
              ret |-> 0]

bindwidget(h, w, t) ==
    IF "TH_IMMORTAL" \in h.t[t].flags
    THEN [h |-> unrefthingy(h, t), ret |-> -1]
    ELSE IF "DISABLED" \notin h.t[t].flags /\ h.t[t].widget = w
    THEN [h |-> h, ret |-> 0]
    ELSE LET h1 == IF "DISABLED" \notin h.t[t].flags
                   THEN unbindwidget(h, t, TRUE).h ELSE h
             f  == h1.w[w].first
             h2 == IF f # NULLT
                   THEN [h1 EXCEPT !.t[t].samew = h1.t[f].samew,
                                   !.t[f].samew = t]
                   ELSE [h1 EXCEPT !.w[w].first = t,
                                   !.t[t].samew = t]
         IN  [h |-> [h2 EXCEPT !.t[t].widget = w,
                               !.t[t].flags = @ \ {"DISABLED"}],
              ret |-> 0]

(***************************************************************************)
(* Reading a widget through a thingy.  The widget pointer of a disabled    *)
(* thingy is stale: it is NULL in a node that was never bound, it may      *)
(* still address a widget that other names keep alive, or it may address   *)
(* freed storage.  derefkind names which of these a read of t->widget->... *)
(* meets; a read of freed storage or through NULL is undefined, and the    *)
(* operations below take its outcome as a nondeterministic input.          *)
(***************************************************************************)
derefkind(h, t) ==
    IF h.t[t].widget = NULLW THEN "null"
    ELSE IF h.t[t].widget \notin DOMAIN h.w THEN "destroyed"
    ELSE IF "DISABLED" \in h.t[t].flags THEN "disabled"
    ELSE "enabled"

\* what an operation reports of a read: "none" when it went through an
\* enabled thingy, else the kind
badread(kind) == IF kind = "enabled" THEN "none" ELSE kind

(***************************************************************************)
(* The operations of the zle builtin on the registry.  Each returns the    *)
(* new heap and the status; w is the address zalloc returns.               *)
(***************************************************************************)
bin_zle_link_early(h, args) ==
    LET h1 == rthingy(h, args[2])
        t  == getnode(h1, args[1])
    IN  IF t = NULLT THEN [h |-> h1, ret |-> 1, err |-> "no such widget"]
        ELSE LET b == bindwidget(h1, h1.t[t].widget, args[2])
             IN  IF b.ret # 0 THEN [h |-> b.h, ret |-> 1, err |-> "protected"]
                 ELSE [h |-> b.h, ret |-> 0, err |-> "none"]

bin_zle_link(h, args) ==
    LET t == getnode(h, args[1])
    IN  IF t = NULLT THEN [h |-> h, ret |-> 1, err |-> "no such widget"]
        ELSE LET b == bindwidget(rthingy(h, args[2]), h.t[t].widget, args[2])
             IN  IF b.ret # 0 THEN [h |-> b.h, ret |-> 1, err |-> "protected"]
                 ELSE [h |-> b.h, ret |-> 0, err |-> "none"]

\* bin_zle_new without freewidget(w) after the bind failed
bin_zle_new_nofree(h, w, args) ==
    LET fnnam == IF Len(args) > 1 THEN args[2] ELSE args[1]
        h0 == [h EXCEPT !.w = AddKey(@, w, [flags |-> {}, first |-> NULLT,
                                            u |-> [fnnam |-> fnnam]])]
        b  == bindwidget(rthingy(h0, args[1]), w, args[1])
    IN  IF b.ret = 0 THEN [h |-> b.h, ret |-> 0, err |-> "none"]
        ELSE [h |-> b.h, ret |-> 1, err |-> "protected"]

bin_zle_new(h, w, args) ==
    LET fnnam == IF Len(args) > 1 THEN args[2] ELSE args[1]
        h0 == [h EXCEPT !.w = AddKey(@, w, [flags |-> {}, first |-> NULLT,
                                            u |-> [fnnam |-> fnnam]])]
        b  == bindwidget(rthingy(h0, args[1]), w, args[1])
    IN  IF b.ret = 0 THEN [h |-> b.h, ret |-> 0, err |-> "none"]
        ELSE [h |-> freewidget(b.h, w), ret |-> 1, err |-> "protected"]

\* the loop of bin_zle_del leaving at the first name that fails
RECURSIVE bin_zle_del_stop(_, _, _, _)
bin_zle_del_stop(h, args, i, ret) ==
    IF i > Len(args) THEN [h |-> h, ret |-> ret]
    ELSE LET t == getnode(h, args[i])
         IN  IF t = NULLT THEN [h |-> h, ret |-> 1]
             ELSE LET u == unbindwidget(h, t, FALSE)
                  IN  IF u.ret # 0 THEN [h |-> u.h, ret |-> 1]
                      ELSE bin_zle_del_stop(u.h, args, i + 1, ret)

\* do { ... } while(*++args): every name is processed, ret accumulates
RECURSIVE bin_zle_del_loop(_, _, _, _)
bin_zle_del_loop(h, args, i, ret) ==
    IF i > Len(args) THEN [h |-> h, ret |-> ret]
    ELSE LET t == getnode(h, args[i])
         IN  IF t = NULLT THEN bin_zle_del_loop(h, args, i + 1, 1)
             ELSE LET u == unbindwidget(h, t, FALSE)
                  IN  bin_zle_del_loop(u.h, args, i + 1, IF u.ret # 0 THEN 1 ELSE ret)

bin_zle_del(h, args) == bin_zle_del_loop(h, args, 1, 0)

(***************************************************************************)
(* zle -C.  modok is the answer of require_module; garbage is what a read  *)
(* of cw->flags & ZLE_ISCOMP yields when cw addresses freed storage.       *)
(***************************************************************************)
bin_zle_complete(h, w, args, modok, garbage) ==
    IF ~modok THEN [h |-> h, ret |-> 1, err |-> "module", deref |-> "none"]
    ELSE
    LET base == IF IsDotted(args[2]) THEN args[2] ELSE dotn(args[2])
        h1 == rthingy(h, base)
        cw == h1.t[base].widget
        kind == derefkind(h1, base)
        h2 == unrefthingy(h1, base)
        iscomp == IF kind = "destroyed" THEN garbage
                  ELSE "ZLE_ISCOMP" \in h1.w[cw].flags
    IN  IF cw = NULLW
        THEN [h |-> h2, ret |-> 1, err |-> "invalid widget", deref |-> "none"]
        ELSE IF ~iscomp
        THEN [h |-> h2, ret |-> 1, err |-> "invalid widget", deref |-> badread(kind)]
        ELSE LET h3 == [h2 EXCEPT !.w = AddKey(@, w,
                            [flags |-> {"WIDGET_NCOMP", "ZLE_MENUCMP", "ZLE_KEEPSUFFIX"},
                             first |-> NULLT,
                             u |-> [comp |-> "fn"]])]
                 b  == bindwidget(rthingy(h3, args[1]), w, args[1])
             IN  IF b.ret # 0
                 THEN [h |-> freewidget(b.h, w), ret |-> 1, err |-> "protected",
                       deref |-> badread(kind)]
                 ELSE [h |-> b.h, ret |-> 0, err |-> "none", deref |-> badread(kind)]

(***************************************************************************)
(* zle -l with names: an existence test.  getnode2 also finds disabled     *)
(* nodes; without -a the widget of the node found is read.  garbage is     *)
(* what t->widget->flags & WIDGET_INT yields when that read is undefined.  *)
(* The result carries the kinds of read that were made.                    *)
(***************************************************************************)
RECURSIVE bin_zle_list_loop(_, _, _, _, _, _)
bin_zle_list_loop(h, args, i, opt_a, garbage, deref) ==
    IF i > Len(args) THEN [ret |-> 0, deref |-> deref]
    ELSE LET t == getnode2(h, args[i])
         IN  IF t = NULLT THEN [ret |-> 1, deref |-> deref]
             ELSE IF opt_a
             THEN bin_zle_list_loop(h, args, i + 1, opt_a, garbage, deref)
             ELSE LET kind == derefkind(h, t)
                      isint == IF kind \in {"null", "destroyed"} THEN garbage
                               ELSE "WIDGET_INT" \in h.w[h.t[t].widget].flags
                      d == IF deref # "none" THEN deref ELSE badread(kind)
                  IN  IF isint THEN [ret |-> 1, deref |-> d]
                      ELSE bin_zle_list_loop(h, args, i + 1, opt_a, garbage, d)

\* scanlistwidgets over the enabled nodes: the names printed
scanlistwidgets(h, opt_a) ==
    {n \in DOMAIN h.t : /\ "DISABLED" \notin h.t[n].flags
                        /\ (opt_a \/ "WIDGET_INT" \notin h.w[h.t[n].widget].flags)}

bin_zle_list(h, args, opt_a, garbage) ==
    IF Len(args) = 0
    THEN [ret |-> 0, deref |-> "none", out |-> scanlistwidgets(h, opt_a)]
    ELSE [ret |-> bin_zle_list_loop(h, args, 1, opt_a, garbage, "none").ret,
          deref |-> bin_zle_list_loop(h, args, 1, opt_a, garbage, "none").deref,
          out |-> {}]

(***************************************************************************)
(* Widgets provided by modules.                                            *)
(***************************************************************************)
\* addzlefunction without the test of the dotted name
addzlefunction_retake(h, w, name, ifunc, flags) ==
    IF IsDotted(name) THEN [h |-> h, ret |-> NULLW]
    ELSE LET h0 == [h EXCEPT !.w = AddKey(@, w,
                        [flags |-> {"WIDGET_INT"} \cup flags,
                         first |-> NULLT, u |-> [fn |-> ifunc]])]
             t  == dotn(name)
             h1 == bindwidget(rthingy(h0, t), w, t).h
             h2 == [h1 EXCEPT !.t[t].flags = @ \cup {"TH_IMMORTAL"}]
             h3 == bindwidget(rthingy(h2, name), w, name).h
         IN  [h |-> h3, ret |-> w]

\* addzlefunction without t->flags |= TH_IMMORTAL
addzlefunction_mortal(h, w, name, ifunc, flags) ==
    IF IsDotted(name) THEN [h |-> h, ret |-> NULLW]
    ELSE LET t0 == getnode(h, dotn(name))
         IN  IF t0 # NULLT /\ "TH_IMMORTAL" \in h.t[t0].flags
             THEN [h |-> h, ret |-> NULLW]
             ELSE LET h0 == [h EXCEPT !.w = AddKey(@, w,
                                 [flags |-> {"WIDGET_INT"} \cup flags,
                                  first |-> NULLT, u |-> [fn |-> ifunc]])]
                      t  == dotn(name)
                      h1 == bindwidget(rthingy(h0, t), w, t).h
                      h3 == bindwidget(rthingy(h1, name), w, name).h
                  IN  [h |-> h3, ret |-> w]

addzlefunction(h, w, name, ifunc, flags) ==
    IF IsDotted(name) THEN [h |-> h, ret |-> NULLW]
    ELSE LET t0 == getnode(h, dotn(name))
         IN  IF t0 # NULLT /\ "TH_IMMORTAL" \in h.t[t0].flags
             THEN [h |-> h, ret |-> NULLW]
             ELSE LET h0 == [h EXCEPT !.w = AddKey(@, w,
                                 [flags |-> {"WIDGET_INT"} \cup flags,
                                  first |-> NULLT, u |-> [fn |-> ifunc]])]
                      t  == dotn(name)
                      h1 == bindwidget(rthingy(h0, t), w, t).h
                      h2 == [h1 EXCEPT !.t[t].flags = @ \cup {"TH_IMMORTAL"}]
                      h3 == bindwidget(rthingy(h2, name), w, name).h
                  IN  [h |-> h3, ret |-> w]

\* the loop of deletezlefunction returning after its first unbindwidget
deletezlefunction_once(h, p, k) ==
    [h |-> unbindwidget(h, p, TRUE).h, unbinds |-> k + 1]

\* while(1) { n = p->samew; if(n == p) { unbind p; return; } unbind p; p = n; }
\* the result carries the number of unbindwidget calls made
RECURSIVE deletezlefunction_loop(_, _, _)
deletezlefunction_loop(h, p, k) ==
    LET n == h.t[p].samew
    IN  IF n = p THEN [h |-> unbindwidget(h, p, TRUE).h, unbinds |-> k + 1]
        ELSE deletezlefunction_loop(unbindwidget(h, p, TRUE).h, n, k + 1)

deletezlefunction(h, w) == deletezlefunction_loop(h, h.w[w].first, 0)

(***************************************************************************)
(* emptythingytab: the table is emptied when the zle module is unloaded.   *)
(* scanhashtable calls scanemptythingies on the nodes that are not         *)
(* DISABLED, in the order of the hash chains, which order gives.           *)
(***************************************************************************)
scanemptythingies(h, t) ==
    IF "WIDGET_INT" \notin h.w[h.t[t].widget].flags
    THEN unbindwidget(h, t, TRUE).h
    ELSE h

RECURSIVE scanhashtable(_, _, _)
scanhashtable(h, order, i) ==
    IF i > Len(order) THEN h
    ELSE scanhashtable(scanemptythingies(h, order[i]), order, i + 1)

emptythingytab(h, order) == scanhashtable(h, order, 1)

\* the orders in which a scan can meet the enabled nodes of the table
ScanOrders(h) ==
    LET E == {t \in DOMAIN h.t : "DISABLED" \notin h.t[t].flags}
    IN  {o \in [1..Cardinality(E) -> E] : \A i, j \in DOMAIN o : o[i] = o[j] => i = j}

(***************************************************************************)
(* Invoking a widget: zle widget [ -n num ] [ -N ] [ -K keymap ] args.     *)
(* An argument is the sequence of its characters.  NULLS stands for the    *)
(* NULL that ends the argument vector.                                     *)
(***************************************************************************)
NULLS == <<"NULL">>
Keymaps == {<<"m">>, <<"v">>}

digit(c) == CASE c = "0" -> 0 [] c = "1" -> 1 [] c = "2" -> 2 [] c = "3" -> 3
              [] c = "4" -> 4 [] c = "5" -> 5 [] c = "6" -> 6 [] c = "7" -> 7
              [] c = "8" -> 8 [] c = "9" -> 9 [] OTHER -> -1

\* atoi: an optional sign, then the leading digits; 0 when there are none
RECURSIVE atoi_digits(_, _, _)
atoi_digits(str, i, acc) ==
    IF i > Len(str) \/ digit(str[i]) < 0 THEN acc
    ELSE atoi_digits(str, i + 1, acc * 10 + digit(str[i]))

atoi(str) ==
    IF Len(str) > 0 /\ str[1] = "-" THEN 0 - atoi_digits(str, 2, 0)
    ELSE IF Len(str) > 0 /\ str[1] = "+" THEN atoi_digits(str, 2, 0)
    ELSE atoi_digits(str, 1, 0)

\* selectkeymap(name, 0): status 1 and no change when there is no such keymap
selectkeymap(km, name) ==
    IF name \in Keymaps THEN [km |-> name, ret |-> 0] ELSE [km |-> km, ret |-> 1]

zle_usable_widgetonly(active, inctl, incomp, ctx) ==
    active /\ ~inctl /\ ~incomp /\ ctx = "SFC_WIDGET"

\* zleactive && !incompctlfunc && !incompfunc; sfcontext is not consulted
zle_usable(active, inctl, incomp, ctx) == active /\ ~inctl /\ ~incomp

(***************************************************************************)
(* The option loop of bin_zle_call.  p holds the locals and the globals    *)
(* the loop writes: zmod, km (curkeymapname), saveflag, keymap_restore.    *)
(* The result says whether the loop ended (st = "ok", with next the index  *)
(* of the first argument left for the widget) or returned 1 (st = "err").  *)
(***************************************************************************)
RECURSIVE call_opts(_, _, _)
RECURSIVE call_chars(_, _, _, _)

\* while (*args && **args == '-')
call_opts(p, args, i) ==
    IF i > Len(args) \/ Len(args[i]) = 0 \/ args[i][1] # "-"
    THEN [st |-> "ok", p |-> p, next |-> i, err |-> "none"]
    ELSE IF Len(args[i]) = 1 \/ args[i][2] = "-"
    THEN [st |-> "ok", p |-> p, next |-> i + 1, err |-> "none"]
    ELSE call_chars(p, args, i, 2)

\* while (*++(*args)) switch (**args); j is the place of **args in args[i]
call_chars(p, args, i, j) ==
    IF j > Len(args[i]) THEN call_opts(p, args, i + 1)
    ELSE
    LET c == args[i][j]
        inl == j < Len(args[i])
        val == IF inl THEN SubSeq(args[i], j + 1, Len(args[i]))
               ELSE IF i < Len(args) THEN args[i + 1] ELSE NULLS
    IN  IF c = "n"
        THEN IF val = NULLS
             THEN [st |-> "err", p |-> p, next |-> i, err |-> "number expected"]
             ELSE LET p2 == [p EXCEPT !.saveflag = 1,
                                     !.zmod = [mult |-> atoi(val),
                                               flags |-> p.zmod.flags \cup {"MOD_MULT"}]]
                  IN  IF inl THEN call_chars(p2, args, i, j + 1)
                      ELSE call_opts(p2, args, i + 2)
        ELSE IF c = "N"
        THEN call_chars([p EXCEPT !.saveflag = 1,
                                  !.zmod = [mult |-> 1,
                                            flags |-> p.zmod.flags \ {"MOD_MULT"}]],
                        args, i, j + 1)
        ELSE IF c = "K"
        THEN IF val = NULLS
             THEN [st |-> "err", p |-> p, next |-> i, err |-> "keymap expected"]
             ELSE LET p2 == [p EXCEPT !.keymap_restore = p.km]
                      sel == selectkeymap(p.km, val)
                      p3 == [p2 EXCEPT !.km = sel.km]
                  IN  IF sel.ret # 0
                      THEN [st |-> "err", p |-> p3, next |-> i, err |-> "no such keymap"]
                      ELSE IF inl THEN call_chars(p3, args, i, j + 1)
                      ELSE call_opts(p3, args, i + 2)
        ELSE [st |-> "err", p |-> p, next |-> i, err |-> "unknown option"]

\* execzlefunc(t, args) runs the widget t names; a disabled thingy names
\* none, and the call fails without running anything
execzlefunc_runs(h, t) == "DISABLED" \notin h.t[t].flags

\* what the dispatch layer is asked to run for the widget at address w
dispatched(h, w) ==
    IF "WIDGET_INT" \in h.w[w].flags THEN "internal"
    ELSE IF "WIDGET_NCOMP" \in h.w[w].flags THEN "completion"
    ELSE h.w[w].u.fnnam

(***************************************************************************)
(* bin_zle_call up to the point where the widget starts to run.  ed is the *)
(* editor state [usable, zmod, km]; args is <<wname, option words...>>, or *)
(* empty.  The result either is a return (kind = "returned", with the      *)
(* status, and the state the call leaves) or the call is in flight (kind = *)
(* "running") with its frame: the locals bin_zle_call uses after           *)
(* execzlefunc returns.                                                    *)
(***************************************************************************)
bin_zle_call(h, ed, args) ==
    IF Len(args) = 0
    THEN [kind |-> "returned", ret |-> IF ed.usable THEN 0 ELSE 1, h |-> h,
          zmod |-> ed.zmod, km |-> ed.km, err |-> "none"]
    ELSE IF ~ed.usable
    THEN [kind |-> "returned", ret |-> 1, h |-> h, zmod |-> ed.zmod, km |-> ed.km,
          err |-> "not active"]
    ELSE
    LET o == call_opts([zmod |-> ed.zmod, km |-> ed.km, saveflag |-> 0,
                        keymap_restore |-> NULLS], SubSeq(args, 2, Len(args)), 1)
        wname == args[1]
        h1 == rthingy(h, wname)
    IN  IF o.st = "err"
        THEN [kind |-> "returned", ret |-> 1, h |-> h, zmod |-> o.p.zmod,
              km |-> o.p.km, err |-> o.err]
        ELSE IF ~execzlefunc_runs(h1, wname)
        THEN [kind |-> "returned", ret |-> 1, h |-> unrefthingy(h1, wname),
              zmod |-> IF o.p.saveflag # 0 THEN ed.zmod ELSE o.p.zmod,
              km |-> IF o.p.keymap_restore # NULLS
                     THEN selectkeymap(o.p.km, o.p.keymap_restore).km ELSE o.p.km,
              err |-> "no such widget"]
        ELSE [kind |-> "running", ret |-> 0, h |-> h1, zmod |-> o.p.zmod,
              km |-> o.p.km, err |-> "none",
              frame |-> [wname |-> wname, modsave |-> ed.zmod,
                         saveflag |-> o.p.saveflag,
                         keymap_restore |-> o.p.keymap_restore,
                         run |-> dispatched(h1, h1.t[wname].widget)]]

\* bin_zle_call after execzlefunc returned, without the unrefthingy(t) of
\* line 705
bin_zle_call_return_keep(h, zm, km, frame) ==
    [h |-> h,
     zmod |-> IF frame.saveflag # 0 THEN frame.modsave ELSE zm,
     km |-> IF frame.keymap_restore # NULLS
            THEN selectkeymap(km, frame.keymap_restore).km ELSE km]

\* bin_zle_call after execzlefunc returned: unrefthingy(t), then the restores
bin_zle_call_return(h, zm, km, frame) ==
    [h |-> unrefthingy(h, frame.wname),
     zmod |-> IF frame.saveflag # 0 THEN frame.modsave ELSE zm,
     km |-> IF frame.keymap_restore # NULLS
            THEN selectkeymap(km, frame.keymap_restore).km ELSE km]

(***************************************************************************)
(* zle -F: the table of watched file descriptors.  watch_fds and           *)
(* watch_funcs are sequences; the empty sequence stands for a NULL array,  *)
(* and NULLF for the NULL that ends watch_funcs.  Element i of the C       *)
(* arrays is element i + 1 of the sequences.                               *)
(***************************************************************************)
NULLF == "NULL"

\* zstrtol(s, &endptr, 10): an optional sign, then the decimal digits;
\* rest is what endptr points at
RECURSIVE zstrtol_end(_, _)
zstrtol_end(str, i) ==
    IF i > Len(str) \/ digit(str[i]) < 0 THEN i ELSE zstrtol_end(str, i + 1)

zstrtol(str) ==
    LET neg == Len(str) > 0 /\ str[1] = "-"
        from == IF Len(str) > 0 /\ str[1] \in {"-", "+"} THEN 2 ELSE 1
        to == zstrtol_end(str, from)
        v == atoi_digits(str, from, 0)
    IN  IF to = from THEN [val |-> 0, rest |-> str]
        ELSE [val |-> IF neg THEN 0 - v ELSE v, rest |-> SubSeq(str, to, Len(str))]

\* for (i = 0; i < nwatch; i++) if (watch_fds[i] == fd): the first such
\* place, or 0
fd_index(tab, fd) ==
    LET hits == {i \in 1..tab.nwatch : tab.fds[i] = fd}
    IN  IF hits = {} THEN 0 ELSE CHOOSE i \in hits : \A j \in hits : i <= j

\* adding or replacing a handler, with the search for fd left out
fd_add_append(tab, fd, funcnam) ==
    [nwatch |-> tab.nwatch + 1,
     fds |-> Append(tab.fds, fd),
     funcs |-> SubSeq(tab.funcs, 1, tab.nwatch) \o <<funcnam, NULLF>>]

\* adding or replacing a handler
fd_add(tab, fd, funcnam) ==
    LET i == fd_index(tab, fd)
    IN  IF i # 0 THEN [tab EXCEPT !.funcs[i] = funcnam]
        ELSE [nwatch |-> tab.nwatch + 1,
              fds |-> Append(tab.fds, fd),
              funcs |-> SubSeq(tab.funcs, 1, tab.nwatch) \o <<funcnam, NULLF>>]

\* deleting the handler at place i, with the tail copied from watch_fds + i
\* and watch_funcs + i
fd_del_shift(tab, i) ==
    LET newnwatch == tab.nwatch - 1
    IN  IF newnwatch # 0
        THEN [nwatch |-> newnwatch,
              fds |-> SubSeq(tab.fds, 1, i - 1) \o SubSeq(tab.fds, i, newnwatch),
              funcs |-> SubSeq(tab.funcs, 1, i - 1)
                        \o SubSeq(tab.funcs, i, newnwatch) \o <<NULLF>>]
        ELSE [nwatch |-> 0, fds |-> <<>>, funcs |-> <<>>]

\* deleting the handler at place i
fd_del(tab, i) ==
    LET newnwatch == tab.nwatch - 1
    IN  IF newnwatch # 0
        THEN [nwatch |-> newnwatch,
              fds |-> SubSeq(tab.fds, 1, i - 1)
                      \o SubSeq(tab.fds, i + 1, tab.nwatch),
              funcs |-> SubSeq(tab.funcs, 1, i - 1)
                        \o SubSeq(tab.funcs, i + 1, tab.nwatch) \o <<NULLF>>]
        ELSE [nwatch |-> 0, fds |-> <<>>, funcs |-> <<>>]

bin_zle_fd(tab, args, opt_L) ==
    LET fd == IF Len(args) > 0 THEN zstrtol(args[1]).val ELSE 0
        i == fd_index(tab, fd)
    IN  IF Len(args) > 0 /\ (zstrtol(args[1]).rest # <<>> \/ fd < 0)
        THEN [tab |-> tab, ret |-> 1, err |-> "bad fd", out |-> <<>>]
        ELSE IF opt_L \/ Len(args) = 0
        THEN IF Len(args) > 1
             THEN [tab |-> tab, ret |-> 1, err |-> "too many arguments", out |-> <<>>]
             ELSE LET shown == {k \in 1..tab.nwatch :
                                   Len(args) = 0 \/ tab.fds[k] = fd}
                  IN  [tab |-> tab,
                       ret |-> IF Len(args) > 0 /\ shown = {} THEN 1 ELSE 0,
                       err |-> "none",
                       out |-> [k \in 1..tab.nwatch |->
                                   IF k \in shown
                                   THEN <<tab.fds[k], tab.funcs[k]>> ELSE <<>>]]
        ELSE IF Len(args) > 1
        THEN [tab |-> fd_add(tab, fd, args[2]), ret |-> 0, err |-> "none", out |-> <<>>]
        ELSE IF i # 0
        THEN [tab |-> fd_del(tab, i), ret |-> 0, err |-> "none", out |-> <<>>]
        ELSE [tab |-> tab, ret |-> 1, err |-> "no handler", out |-> <<>>]

(***************************************************************************)
(* bin_zle: the selection of the operation and the check of the number of  *)
(* arguments.  ops is the set of options that are set, n the number of     *)
(* arguments.  The result is a return of 1 (kind = "return 1") or the call *)
(* of the operation function with the arguments (kind = "passed on").      *)
(***************************************************************************)
opns ==
    << [o |-> "l", func |-> "bin_zle_list",       min |-> 0, max |-> -1],
       [o |-> "D", func |-> "bin_zle_del",        min |-> 1, max |-> -1],
       [o |-> "A", func |-> "bin_zle_link",       min |-> 2, max |-> 2],
       [o |-> "N", func |-> "bin_zle_new",        min |-> 1, max |-> 2],
       [o |-> "C", func |-> "bin_zle_complete",   min |-> 3, max |-> 3],
       [o |-> "R", func |-> "bin_zle_refresh",    min |-> 0, max |-> -1],
       [o |-> "M", func |-> "bin_zle_mesg",       min |-> 1, max |-> 1],
       [o |-> "U", func |-> "bin_zle_unget",      min |-> 1, max |-> 1],
       [o |-> "K", func |-> "bin_zle_keymap",     min |-> 1, max |-> 1],
       [o |-> "I", func |-> "bin_zle_invalidate", min |-> 0, max |-> 0],
       [o |-> "F", func |-> "bin_zle_fd",         min |-> 0, max |-> 2],
       [o |-> "",  func |-> "bin_zle_call",       min |-> 0, max |-> -1] >>

\* for(op = opns; op->o && !OPT_ISSET(ops, op->o); op++) ;
RECURSIVE bin_zle_select(_, _)
bin_zle_select(ops, k) ==
    IF opns[k].o = "" \/ opns[k].o \in ops THEN k ELSE bin_zle_select(ops, k + 1)

\* bin_zle with the number of arguments checked before the clash of options
bin_zle_countfirst(ops, n) ==
    LET k == bin_zle_select(ops, 1)
        op == opns[k]
    IN  IF n < op.min
        THEN [kind |-> "return 1", err |-> "not enough arguments", func |-> "none"]
        ELSE IF op.max # -1 /\ n > op.max
        THEN [kind |-> "return 1", err |-> "too many arguments", func |-> "none"]
        ELSE IF op.o # "" /\ \E j \in (k + 1)..Len(opns) :
                                 opns[j].o # "" /\ opns[j].o \in ops
        THEN [kind |-> "return 1", err |-> "incompatible", func |-> "none"]
        ELSE [kind |-> "passed on", err |-> "none", func |-> op.func]

bin_zle(ops, n) ==
    LET k == bin_zle_select(ops, 1)
        op == opns[k]
    IN  IF op.o # "" /\ \E j \in (k + 1)..Len(opns) :
                            opns[j].o # "" /\ opns[j].o \in ops
        THEN [kind |-> "return 1", err |-> "incompatible", func |-> "none"]
        ELSE IF n < op.min
        THEN [kind |-> "return 1", err |-> "not enough arguments", func |-> "none"]
        ELSE IF op.max # -1 /\ n > op.max
        THEN [kind |-> "return 1", err |-> "too many arguments", func |-> "none"]
        ELSE [kind |-> "passed on", err |-> "none", func |-> op.func]

(***************************************************************************)
(* State and actions.  The statuses and messages of the operations are the *)
(* results of the operators above; the actions keep the state they leave.  *)
(***************************************************************************)
EmptyMap == [x \in {} |-> 0]

\* no zle command has been given yet
NoCmd == [ops |-> {}, n |-> 0, kind |-> "none", err |-> "none", func |-> "none"]

SetHeap(h) == thingytab' = h.t /\ widgets' = h.w

\* the references to th that invocations in flight hold
InFlight(stk, th) == Cardinality({i \in DOMAIN stk : stk[i].wname = th})

\* the references to th that belong to nobody: not to its binding and not
\* to an invocation in flight
Leaked(h, stk, th) ==
    h.t[th].rc - (IF "DISABLED" \in h.t[th].flags THEN 0 ELSE 1) - InFlight(stk, th)

RECURSIVE SumLeaked(_, _, _)
SumLeaked(h, stk, S) ==
    IF S = {} THEN 0
    ELSE LET n == CHOOSE x \in S : TRUE
         IN  Leaked(h, stk, n) + SumLeaked(h, stk, S \ {n})

\* the guard that keeps the leaked references within the bound
RcOk(h) == SumLeaked(h, stack, DOMAIN h.t) <= MaxLeak

Editor == <<zleactive, incompctlfunc, incompfunc, sfcontext, zmod, curkeymapname>>

Watch == <<nwatch, watch_fds, watch_funcs>>

\* zalloc: the allocator hands out the lowest address that is not in use
FreeAddrs ==
    LET free == WidgetIds \ DOMAIN widgets
    IN  {w \in free : \A x \in free : w <= x}

NewArgs == {<<n>> : n \in Names} \cup {<<n, f>> : n \in {"a"}, f \in FuncNames}
DelArgs == {<<n>> : n \in Names} \cup {<<n, m>> : n \in Names, m \in Names}
ListArgs == {<<>>} \cup {<<n>> : n \in Names}
BaseArgs == {"a", ".b"}
IntFlags == {{}, {"ZLE_ISCOMP"}}

ZleNewOf(S) ==
    \E args \in S, w \in FreeAddrs :
        LET r == bin_zle_new(Heap, w, args)
        IN  /\ RcOk(r.h)
            /\ SetHeap(r.h)
            /\ UNCHANGED <<Editor, stack, Watch, cmd, unloaded>>

ZleNew == ZleNewOf(NewArgs)

ZleLink ==
    \E src \in Names, dst \in Names :
        LET r == bin_zle_link(Heap, <<src, dst>>)
        IN  /\ RcOk(r.h)
            /\ SetHeap(r.h)
            /\ UNCHANGED <<Editor, stack, Watch, cmd, unloaded>>

ZleDelOf(S) ==
    \E args \in S :
        LET r == bin_zle_del(Heap, args)
        IN  /\ SetHeap(r.h)
            /\ UNCHANGED <<Editor, stack, Watch, cmd, unloaded>>

ZleDel == ZleDelOf(DelArgs)

ZleComplete ==
    \E n \in Names, base \in BaseArgs, w \in FreeAddrs,
       modok \in BOOLEAN, garbage \in BOOLEAN :
        LET r == bin_zle_complete(Heap, w, <<n, base, "postfn">>, modok, garbage)
        IN  /\ RcOk(r.h)
            /\ SetHeap(r.h)
            /\ UNCHANGED <<Editor, stack, Watch, cmd, unloaded>>

\* zle -l changes nothing
ZleList ==
    \E args \in ListArgs, opt_a \in BOOLEAN, garbage \in BOOLEAN :
        /\ bin_zle_list(Heap, args, opt_a, garbage).ret \in {0, 1}
        /\ UNCHANGED vars

AddZleFunction ==
    \E name \in Names, flags \in IntFlags, w \in FreeAddrs :
        LET r == addzlefunction(Heap, w, name, "ifunc", flags)
        IN  /\ RcOk(r.h)
            /\ SetHeap(r.h)
            /\ UNCHANGED <<Editor, stack, Watch, cmd, unloaded>>

\* a module deletes a widget that addzlefunction gave it
NativeWidgets == {x \in DOMAIN widgets : "WIDGET_INT" \in widgets[x].flags}

DeleteZleFunction ==
    \E w \in NativeWidgets :
        LET r == deletezlefunction(Heap, w)
        IN  /\ SetHeap(r.h)
            /\ UNCHANGED <<Editor, stack, Watch, cmd, unloaded>>

Init ==
    /\ thingytab = EmptyMap
    /\ widgets = EmptyMap
    /\ zleactive = FALSE
    /\ incompctlfunc = FALSE
    /\ incompfunc = FALSE
    /\ sfcontext = "SFC_NONE"
    /\ zmod = [mult |-> 1, flags |-> {}]
    /\ curkeymapname = <<"m">>
    /\ stack = <<>>
    /\ nwatch = 0
    /\ watch_fds = <<>>
    /\ watch_funcs = <<>>
    /\ cmd = NoCmd
    /\ unloaded = FALSE

Next ==
    \/ ZleNew
    \/ ZleLink
    \/ ZleDel
    \/ ZleComplete
    \/ ZleList
    \/ AddZleFunction
    \/ DeleteZleFunction

Spec == Init /\ [][Next]_vars

(***************************************************************************)
(* The sound registry: the same operations, taken while every reference    *)
(* count is the number of its owners (zle -A of a name to itself, the one  *)
(* operation that loses a reference, has run at most MaxRegLeak times to   *)
(* that effect).                                                           *)
(***************************************************************************)
LeakFree == SumLeaked(Heap, stack, DOMAIN thingytab) <= MaxRegLeak

NextReg ==
    \/ ZleNew /\ LeakFree'
    \/ ZleLink /\ LeakFree'
    \/ ZleDel /\ LeakFree'
    \/ ZleComplete /\ LeakFree'
    \/ ZleList /\ LeakFree'
    \/ AddZleFunction /\ LeakFree'
    \/ DeleteZleFunction /\ LeakFree'

SpecReg == Init /\ [][NextReg]_vars

(***************************************************************************)
(* Unloading the module: the sound registry until the thingy table is      *)
(* emptied, which happens once, outside any widget; nothing is done with   *)
(* the table afterwards.                                                   *)
(***************************************************************************)
EmptyThingytab ==
    /\ ~unloaded
    /\ stack = <<>>
    /\ \E order \in ScanOrders(Heap) : SetHeap(emptythingytab(Heap, order))
    /\ unloaded' = TRUE
    /\ UNCHANGED <<Editor, stack, Watch, cmd>>

NextUnload ==
    \/ ~unloaded /\ ZleNew /\ LeakFree'
    \/ ~unloaded /\ ZleLink /\ LeakFree'
    \/ ~unloaded /\ ZleDel /\ LeakFree'
    \/ ~unloaded /\ ZleComplete /\ LeakFree'
    \/ ~unloaded /\ ZleList /\ LeakFree'
    \/ ~unloaded /\ AddZleFunction /\ LeakFree'
    \/ ~unloaded /\ DeleteZleFunction /\ LeakFree'
    \/ EmptyThingytab

SpecUnload == Init /\ [][NextUnload]_vars

(***************************************************************************)
(* Invocations.  The line editor starts and stops, completion starts and   *)
(* stops and the shell function context changes between commands; a        *)
(* widget that runs may define and delete widgets and invoke widgets.      *)
(***************************************************************************)
Ed == [usable |-> zle_usable(zleactive, incompctlfunc, incompfunc, sfcontext),
       zmod |-> zmod, km |-> curkeymapname]

BasicWords == {<<"-", "n">>, <<"-", "N">>, <<"-", "K">>, <<"-", "x">>, <<"2">>, <<"v">>}
ClusterArgs == {<< <<"-", "n", "2">> >>, << <<"-", "K", "v">> >>,
                << <<"-", "N", "n">>, <<"2">> >>,
                << <<"-", "-">>, <<"-", "N">> >>, << <<"-">>, <<"-", "x">> >>}
OptArgs == UNION {[1..n -> BasicWords] : n \in 0..MaxArgs} \cup ClusterArgs
CallNames == {"a"}
CallArgs == {<<>>} \cup {<<n>> \o o : n \in CallNames, o \in OptArgs}

SetEditor ==
    /\ stack = <<>>
    /\ zleactive' \in BOOLEAN
    /\ incompctlfunc' \in BOOLEAN
    /\ incompfunc' \in BOOLEAN
    /\ sfcontext' \in {"SFC_NONE", "SFC_WIDGET"}
    /\ UNCHANGED <<thingytab, widgets, zmod, curkeymapname, stack, Watch, cmd, unloaded>>

\* bin_zle_call up to its return, or up to the start of the widget
ZleCall ==
    \E args \in CallArgs :
        LET r == bin_zle_call(Heap, Ed, args)
        IN  /\ r.kind = "running" => Len(stack) < MaxDepth
            /\ SetHeap(r.h)
            /\ zmod' = r.zmod
            /\ curkeymapname' = r.km
            /\ stack' = IF r.kind = "running" THEN Append(stack, r.frame) ELSE stack
            /\ UNCHANGED <<zleactive, incompctlfunc, incompfunc, sfcontext, Watch, cmd, unloaded>>

\* the widget of the innermost invocation returns
ZleCallReturn ==
    /\ stack # <<>>
    /\ LET r == bin_zle_call_return(Heap, zmod, curkeymapname, stack[Len(stack)])
       IN  /\ SetHeap(r.h)
           /\ zmod' = r.zmod
           /\ curkeymapname' = r.km
    /\ stack' = SubSeq(stack, 1, Len(stack) - 1)
    /\ UNCHANGED <<zleactive, incompctlfunc, incompfunc, sfcontext, Watch, cmd, unloaded>>

CallNew == ZleNewOf({<<"a", "myfunc">>})

CallDel == ZleDelOf({<<"a">>})

NextCall ==
    \/ SetEditor
    \/ ZleCall
    \/ ZleCallReturn
    \/ CallNew
    \/ CallDel

SpecCall == Init /\ [][NextCall]_vars

(***************************************************************************)
(* The watched descriptors: zle -F.                                        *)
(***************************************************************************)
FdTable == [nwatch |-> nwatch, fds |-> watch_fds, funcs |-> watch_funcs]

FdWords == {<<"5">>, <<"0", "5">>, <<"7">>, <<"9">>, <<"-", "1">>, <<"5", "x">>}
Handlers == {"h1", "h2", "h3"}
FdArgs == {<<>>} \cup {<<f>> : f \in FdWords}
          \cup {<<f, h>> : f \in FdWords, h \in Handlers}

ZleFd ==
    \E args \in FdArgs, opt_L \in BOOLEAN :
        LET r == bin_zle_fd(FdTable, args, opt_L)
        IN  /\ nwatch' = r.tab.nwatch
            /\ watch_fds' = r.tab.fds
            /\ watch_funcs' = r.tab.funcs
            /\ UNCHANGED <<thingytab, widgets, Editor, stack, cmd, unloaded>>

NextFd == ZleFd

SpecFd == Init /\ [][NextFd]_vars

(***************************************************************************)
(* The zle command up to the call of the operation function.  cmd keeps    *)
(* the options and the number of arguments of the last command with what   *)
(* bin_zle made of them.                                                   *)
(***************************************************************************)
Options == {"l", "D", "A", "N", "C", "R", "M", "U", "K", "I", "F", "L", "a"}
OptSets == {S \in SUBSET Options : Cardinality(S) <= MaxOpts}

ZleCmd ==
    \E ops \in OptSets, n \in 0..MaxCmdArgs :
        LET r == bin_zle(ops, n)
        IN  /\ cmd' = [ops |-> ops, n |-> n, kind |-> r.kind, err |-> r.err,
                       func |-> r.func]
            /\ UNCHANGED <<thingytab, widgets, Editor, stack, Watch, unloaded>>

NextCmd == ZleCmd

SpecCmd == Init /\ [][NextCmd]_vars

(***************************************************************************)
(* Properties.                                                             *)
(***************************************************************************)
Enabled(h, t) == t \in DOMAIN h.t /\ "DISABLED" \notin h.t[t].flags
Immortal(h, t) == t \in DOMAIN h.t /\ "TH_IMMORTAL" \in h.t[t].flags

\* the names bound to the widget at address w
Bound(h, w) == {t \in DOMAIN h.t : Enabled(h, t) /\ h.t[t].widget = w}

\* the thingies met following samew from t, up to the first one met twice
\* or the first link that leaves the table
RECURSIVE orbit(_, _, _)
orbit(h, t, acc) ==
    IF t \in acc \/ t \notin DOMAIN h.t THEN acc
    ELSE orbit(h, h.t[t].samew, acc \cup {t})

\* following samew from t visits exactly the names bound to t's widget,
\* each once, and comes back to t
OneCycle(h, t) ==
    LET B == Bound(h, h.t[t].widget)
    IN  /\ \A x \in B : h.t[x].samew \in B
        /\ \A x \in B : \A y \in B : h.t[x].samew = h.t[y].samew => x = y
        /\ orbit(h, t, {}) = B

\* C1: after any sequence of new, link, complete, delete, native register
\* and native deregister, following samew from an enabled thingy visits
\* exactly the enabled thingies of the same widget, each once, and returns
\* to it; the widget is live, and the list of every live widget starts at
\* one of the names bound to it, so that no disabled thingy is on a cycle.
C1_CycleInvariant ==
    /\ \A t \in DOMAIN thingytab :
          Enabled(Heap, t) => /\ thingytab[t].widget \in DOMAIN widgets
                              /\ OneCycle(Heap, t)
    /\ \A w \in DOMAIN widgets : widgets[w].first \in Bound(Heap, w)

\* a widget that two names share after a third name was unbound from it
C1_Witness ==
    \E w \in DOMAIN widgets :
        /\ Cardinality(Bound(Heap, w)) = 2
        /\ \E t \in DOMAIN thingytab :
              ~Enabled(Heap, t) /\ thingytab[t].widget = w

\* C2: after any sequence of completed operations the reference count of
\* every thingy is 1 if it is enabled, else 0, plus the references that
\* invocations in flight hold; with none in flight, a name that is bound to
\* no widget is absent from the registry.
C2_RefcountBalance ==
    \A t \in DOMAIN thingytab :
        thingytab[t].rc = (IF Enabled(Heap, t) THEN 1 ELSE 0) + InFlight(stack, t)

\* C3: zle -N, zle -A and zle -C whose target name is immortal return 1 and
\* leave the registry as it was, reference counts included; when the
\* operation gets as far as the bind, the failure is "protected".
C3_ImmortalTargetFails ==
    \A n \in DOMAIN thingytab :
        Immortal(Heap, n) =>
            /\ \A args \in {<<n>>, <<n, "myfunc">>}, w \in FreeAddrs :
                  LET r == bin_zle_new(Heap, w, args)
                  IN  r.ret = 1 /\ r.err = "protected" /\ r.h = Heap
            /\ \A src \in Names :
                  LET r == bin_zle_link(Heap, <<src, n>>)
                  IN  /\ r.ret = 1 /\ r.h = Heap
                      /\ getnode(Heap, src) # NULLT => r.err = "protected"
            /\ \A base \in BaseArgs, w \in FreeAddrs, modok \in BOOLEAN,
                  garbage \in BOOLEAN :
                  LET r == bin_zle_complete(Heap, w, <<n, base, "postfn">>,
                                            modok, garbage)
                      cw == getnode(Heap, IF IsDotted(base) THEN base ELSE dotn(base))
                  IN  /\ r.ret = 1 /\ r.h = Heap
                      /\ (modok /\ cw # NULLT
                          /\ "ZLE_ISCOMP" \in widgets[thingytab[cw].widget].flags)
                         => r.err = "protected"

\* an immortal name, a second name that zle -A could link from, and a
\* completion-capable base: all three operations meet the protected name
C3_Witness ==
    \E n \in DOMAIN thingytab, src \in Names, w \in FreeAddrs :
        /\ Immortal(Heap, n)
        /\ src # n
        /\ bin_zle_new(Heap, w, <<n>>).err = "protected"
        /\ bin_zle_link(Heap, <<src, n>>).err = "protected"
        /\ bin_zle_complete(Heap, w, <<n, "a", "postfn">>, TRUE, FALSE).err = "protected"

\* C4: addzlefunction(foo), where .foo is not an enabled immortal name,
\* leaves exactly .foo (immortal) and foo (not immortal) bound to the new
\* widget, on one cycle; zle -D foo then returns 0 and leaves .foo enabled,
\* immortal and bound to the same widget, which stays allocated.
C4_NativeRegistration ==
    \A name \in {n \in Names : ~IsDotted(n)}, flags \in IntFlags, w \in FreeAddrs :
        ~(Enabled(Heap, dotn(name)) /\ Immortal(Heap, dotn(name))) =>
            LET r == addzlefunction(Heap, w, name, "ifunc", flags)
                d == bin_zle_del(r.h, <<name>>)
            IN  /\ r.ret = w
                /\ Bound(r.h, w) = {dotn(name), name}
                /\ Immortal(r.h, dotn(name)) /\ ~Immortal(r.h, name)
                /\ OneCycle(r.h, name)
                /\ d.ret = 0
                /\ Enabled(d.h, dotn(name)) /\ Immortal(d.h, dotn(name))
                /\ d.h.t[dotn(name)].widget = w
                /\ w \in DOMAIN d.h.w
                /\ Bound(d.h, w) = {dotn(name)}
                /\ ~Enabled(d.h, name)

\* a and .a name two user widgets, the native widget a can be registered
\* over them and a deleted afterwards
C4_Witness ==
    \E w \in FreeAddrs :
        /\ Enabled(Heap, "a") /\ Enabled(Heap, ".a")
        /\ thingytab["a"].widget # thingytab[".a"].widget
        /\ "WIDGET_INT" \notin widgets[thingytab["a"].widget].flags
        /\ "WIDGET_INT" \notin widgets[thingytab[".a"].widget].flags
        /\ LET r == addzlefunction(Heap, w, "a", "ifunc", {})
           IN  /\ r.ret = w
               /\ bin_zle_del(r.h, <<"a">>).ret = 0
               /\ Immortal(bin_zle_del(r.h, <<"a">>).h, ".a")

Usable == zleactive /\ ~incompctlfunc /\ ~incompfunc

\* C5: a zle widget call made while the editor is usable leaves zmod, when
\* it has returned, as it was before the call, whatever its options and on
\* every exit.
C5_ZmodRestored ==
    \A args \in CallArgs :
        Usable =>
            LET r == bin_zle_call(Heap, Ed, args)
            IN  IF r.kind = "returned" THEN r.zmod = zmod
                ELSE bin_zle_call_return(r.h, r.zmod, r.km, r.frame).zmod = zmod

\* C6: a zle widget call leaves the current keymap, when it has returned,
\* as it was before the call, whatever its -K options and on every exit.
C6_KeymapRestored ==
    \A args \in CallArgs :
        Usable =>
            LET r == bin_zle_call(Heap, Ed, args)
            IN  IF r.kind = "returned" THEN r.km = curkeymapname
                ELSE bin_zle_call_return(r.h, r.zmod, r.km, r.frame).km = curkeymapname

\* C7: zle widget is gated by zleactive, incompctlfunc and incompfunc only,
\* whatever sfcontext is: when the editor is not usable the call returns 1,
\* runs nothing and leaves registry, zmod and keymap alone; when it is
\* usable, a call without options of an enabled name runs the widget the
\* name is bound to, so that a widget made by zle -N a myfunc runs myfunc.
C7_GatedByUsability ==
    \A args \in CallArgs \ {<<>>} :
        LET r == bin_zle_call(Heap, Ed, args)
        IN  /\ ~Usable => /\ r.kind = "returned" /\ r.ret = 1
                          /\ r.err = "not active"
                          /\ r.h = Heap /\ r.zmod = zmod /\ r.km = curkeymapname
            /\ (Usable /\ Len(args) = 1 /\ Enabled(Heap, args[1])) =>
                          /\ r.kind = "running"
                          /\ r.frame.wname = args[1]
                          /\ r.frame.run = dispatched(Heap, thingytab[args[1]].widget)
                          /\ (widgets[thingytab[args[1]].widget].flags = {}
                              /\ widgets[thingytab[args[1]].widget].u.fnnam = "myfunc")
                             => r.frame.run = "myfunc"

\* the widget of zle -N a myfunc runs, called outside any widget
C7_Witness ==
    /\ stack # <<>>
    /\ stack[Len(stack)].wname = "a"
    /\ stack[Len(stack)].run = "myfunc"
    /\ sfcontext = "SFC_NONE"

\* C8: no operation reads a widget through a disabled thingy: neither
\* zle -l with names nor zle -C reads t->widget->flags of a thingy that is
\* disabled, whether its widget was destroyed or lives on.
C8_NoStaleRead ==
    /\ \A args \in ListArgs, opt_a \in BOOLEAN, garbage \in BOOLEAN :
          bin_zle_list(Heap, args, opt_a, garbage).deref = "none"
    /\ \A n \in Names, base \in BaseArgs, w \in FreeAddrs, garbage \in BOOLEAN :
          bin_zle_complete(Heap, w, <<n, base, "postfn">>, TRUE, garbage).deref = "none"

\* C9: zle -C whose base name, with its dot, is not the enabled name of a
\* completion-capable widget returns 1 and leaves the registry as it was.
\* A read of freed storage is taken to find no flag set.
C9_CompleteNeedsBase ==
    \A n \in Names, base \in BaseArgs, w \in FreeAddrs, modok \in BOOLEAN :
        LET b == IF IsDotted(base) THEN base ELSE dotn(base)
            r == bin_zle_complete(Heap, w, <<n, base, "postfn">>, modok, FALSE)
        IN  ~(Enabled(Heap, b) /\ "ZLE_ISCOMP" \in widgets[thingytab[b].widget].flags)
                => r.ret = 1 /\ r.h = Heap

\* C10: zle -A src dst, where src is unregistered or disabled, returns 1
\* with "no such widget" and leaves the registry as it was: no node for
\* dst is made, no reference count changes, dst keeps its binding.
C10_LinkNoSource ==
    \A src \in Names, dst \in Names :
        getnode(Heap, src) = NULLT =>
            LET r == bin_zle_link(Heap, <<src, dst>>)
            IN  r.ret = 1 /\ r.err = "no such widget" /\ r.h = Heap

\* src has a node but is disabled, dst has none, and a third name is bound
C10_Witness ==
    \E src \in DOMAIN thingytab, dst \in Names :
        /\ dst \notin DOMAIN thingytab
        /\ ~Enabled(Heap, src)
        /\ \E x \in DOMAIN thingytab : Enabled(Heap, x)
        /\ bin_zle_link(Heap, <<src, dst>>).ret = 1

\* the (fd, handler) pairs of a table, in order
FdPairs(tab) == [k \in 1..tab.nwatch |-> <<tab.fds[k], tab.funcs[k]>>]

\* the arrays hold nwatch entries and watch_funcs ends with NULL at index
\* nwatch, or both arrays are NULL when nwatch is 0
FdShape(tab) ==
    /\ Len(tab.fds) = tab.nwatch
    /\ IF tab.nwatch = 0 THEN tab.funcs = <<>>
       ELSE /\ Len(tab.funcs) = tab.nwatch + 1
            /\ tab.funcs[tab.nwatch + 1] = NULLF
            /\ \A k \in 1..tab.nwatch : tab.funcs[k] # NULLF

FdValid(word) == zstrtol(word).rest = <<>> /\ zstrtol(word).val >= 0

\* C11: after any sequence of zle -F calls from the empty table, no
\* descriptor has two entries; zle -F fd handler for a descriptor that is
\* present replaces the handler of its entry and changes nothing else, and
\* for a descriptor that is absent appends one entry at the end.
C11_FdUnique ==
    /\ \A i \in 1..nwatch : \A j \in 1..nwatch :
          watch_fds[i] = watch_fds[j] => i = j
    /\ \A f \in FdWords, h \in Handlers :
          FdValid(f) =>
             LET fd == zstrtol(f).val
                 r == bin_zle_fd(FdTable, <<f, h>>, FALSE)
                 at == {k \in 1..nwatch : watch_fds[k] = fd}
             IN  /\ r.ret = 0
                 /\ at # {} =>
                       /\ r.tab.nwatch = nwatch /\ r.tab.fds = watch_fds
                       /\ Len(r.tab.funcs) = Len(watch_funcs)
                       /\ \A k \in 1..(nwatch + 1) :
                             r.tab.funcs[k] = IF k \in at THEN h ELSE watch_funcs[k]
                 /\ at = {} =>
                       /\ r.tab.nwatch = nwatch + 1
                       /\ FdPairs(r.tab) = Append(FdPairs(FdTable), <<fd, h>>)
                       /\ FdShape(r.tab)

\* two descriptors are watched and the handler of the first one can be
\* replaced by another, given the descriptor in another spelling
C11_Witness ==
    /\ nwatch = 2
    /\ watch_fds[1] = 5
    /\ watch_funcs[1] = "h2"
    /\ bin_zle_fd(FdTable, <<<<"0", "5">>, "h1">>, FALSE).tab.funcs = <<"h1", watch_funcs[2], NULLF>>

\* C20: zle -F fd for a descriptor that is watched returns 0, removes its
\* entry and no other, lowers nwatch by one, keeps the other (fd, handler)
\* pairs in their order and leaves watch_funcs ended by NULL at index
\* nwatch, both arrays NULL when nwatch is 0; for a descriptor that is not
\* watched it returns 1 and leaves the table as it was.
C20_FdDelete ==
    /\ FdShape(FdTable)
    /\ \A f \in FdWords :
          FdValid(f) =>
             LET fd == zstrtol(f).val
                 r == bin_zle_fd(FdTable, <<f>>, FALSE)
                 at == {k \in 1..nwatch : watch_fds[k] = fd}
                 old == FdPairs(FdTable)
             IN  /\ at # {} =>
                       /\ r.ret = 0
                       /\ r.tab.nwatch = nwatch - 1
                       /\ FdPairs(r.tab) =
                             [k \in 1..(nwatch - 1) |->
                                 IF \E i \in at : i <= k THEN old[k + 1] ELSE old[k]]
                       /\ FdShape(r.tab)
                 /\ at = {} => r.ret = 1 /\ r.tab = FdTable

\* three descriptors are watched and the middle one can be deleted
C20_Witness ==
    /\ nwatch = 3
    /\ watch_fds[2] = 5
    /\ bin_zle_fd(FdTable, << <<"5">> >>, FALSE).tab.fds = <<watch_fds[1], watch_fds[3]>>

Selectors == {"l", "D", "A", "N", "C", "R", "M", "U", "K", "I", "F"}

\* the least and the greatest number of arguments of each operation, -1
\* for no greatest; "" is the call of a widget
ArgMin == [o \in Selectors \cup {""} |->
              CASE o \in {"D", "N", "M", "U", "K"} -> 1
                [] o = "A" -> 2 [] o = "C" -> 3 [] OTHER -> 0]
ArgMax == [o \in Selectors \cup {""} |->
              CASE o \in {"M", "U", "K"} -> 1 [] o \in {"A", "N", "F"} -> 2
                [] o = "C" -> 3 [] o = "I" -> 0 [] OTHER -> -1]

DelOne(h, n, r) ==
    IF Enabled(h, n) /\ ~Immortal(h, n)
    THEN /\ r.ret = 0
         /\ ~Enabled(r.h, n)
         /\ \A x \in DOMAIN h.t \ {n} :
               /\ x \in DOMAIN r.h.t
               /\ r.h.t[x].flags = h.t[x].flags
               /\ r.h.t[x].widget = h.t[x].widget
    ELSE r.ret = 1 /\ r.h = h

\* C13: zle -D processes every name in order whatever happened to the
\* names before it: a name that is enabled and not immortal when its turn
\* comes is unbound, a name that is not found or immortal is left alone,
\* and the status is 1 iff some name was not found or immortal.
C13_DeleteEveryName ==
    \A n \in Names, m \in Names :
        LET r1 == bin_zle_del(Heap, <<n>>)
            r2 == bin_zle_del(r1.h, <<m>>)
            r == bin_zle_del(Heap, <<n, m>>)
        IN  /\ DelOne(Heap, n, r1)
            /\ DelOne(r1.h, m, r2)
            /\ r.h = r2.h
            /\ r.ret = (IF r1.ret = 1 \/ r2.ret = 1 THEN 1 ELSE 0)

\* a name that is not found comes before a name that is bound, and zle -D
\* of the two unbinds the second and returns 1
C13_Witness ==
    \E n \in Names, m \in Names :
        /\ getnode(Heap, n) = NULLT
        /\ Enabled(Heap, m) /\ ~Immortal(Heap, m)
        /\ \E x \in DOMAIN thingytab : Immortal(Heap, x)
        /\ bin_zle_del(Heap, <<n, m>>).ret = 1
        /\ ~Enabled(bin_zle_del(Heap, <<n, m>>).h, m)

\* the thingy t, immortal in h, is in g as it is in h: registered, enabled,
\* immortal and bound to the same widget, which is allocated
KeepsImmortal(h, g, t) ==
    /\ Enabled(g, t) /\ Immortal(g, t)
    /\ g.t[t].widget = h.t[t].widget
    /\ g.t[t].widget \in DOMAIN g.w

\* a step that is no native deregistration leaves every immortal thingy as
\* it is
OrdinaryStepKeepsImmortal ==
    \/ DeleteZleFunction
    \/ \A t \in DOMAIN thingytab :
          Immortal(Heap, t) =>
             KeepsImmortal(Heap, [t |-> thingytab', w |-> widgets'], t)

\* the call of an immortal name, and its return, leave every immortal
\* thingy as it is
CallKeepsImmortal ==
    \A n \in DOMAIN thingytab :
        Immortal(Heap, n) =>
           LET r == bin_zle_call(Heap, [usable |-> TRUE, zmod |-> zmod,
                                        km |-> curkeymapname], <<n>>)
           IN  /\ r.kind = "running"
               /\ \A t \in DOMAIN thingytab :
                     Immortal(Heap, t) => KeepsImmortal(Heap, r.h, t)
               /\ bin_zle_call_return(r.h, r.zmod, r.km, r.frame).h = Heap

\* C14: across any sequence of zle -N, -A, -C, -D and widget calls a
\* thingy that has the immortal flag stays registered, enabled, immortal
\* and bound to the same widget; only deletezlefunction, which unbinds with
\* override, ends that.
C14_ImmortalStable == []CallKeepsImmortal /\ [][OrdinaryStepKeepsImmortal]_vars

\* .a is immortal while a, registered with it, has since been bound to
\* another widget and a third name is bound too
C14_Witness ==
    /\ Immortal(Heap, ".a")
    /\ Enabled(Heap, "a") /\ thingytab["a"].widget # thingytab[".a"].widget
    /\ Enabled(Heap, ".b")

\* C15: between operations every allocated widget has an enabled thingy
\* bound to it and every enabled thingy is bound to an allocated widget,
\* so that the free which the unbinding of a widget's last name performs
\* is the only one the widget gets; zle -N and zle -C that fail leave the
\* set of allocated widgets as it was, with no name bound to the widget
\* they had allocated.
C15_NoLeakedWidgets ==
    /\ \A w \in DOMAIN widgets : Bound(Heap, w) # {}
    /\ \A t \in DOMAIN thingytab :
          Enabled(Heap, t) => thingytab[t].widget \in DOMAIN widgets
    /\ \A n \in Names, w \in FreeAddrs :
          /\ \A args \in {<<n>>, <<n, "myfunc">>} :
                LET r == bin_zle_new(Heap, w, args)
                IN  r.ret # 0 => r.h.w = widgets /\ Bound(r.h, w) = {}
          /\ \A base \in BaseArgs, modok \in BOOLEAN, garbage \in BOOLEAN :
                LET r == bin_zle_complete(Heap, w, <<n, base, "postfn">>,
                                          modok, garbage)
                IN  r.ret # 0 => r.h.w = widgets /\ Bound(r.h, w) = {}

\* a widget was destroyed with its last name (its address lies free below
\* one in use), and zle -N of an immortal name fails and frees the widget
\* it had allocated
C15_Witness ==
    \E n \in DOMAIN thingytab, w \in FreeAddrs, y \in DOMAIN widgets :
        /\ w < y
        /\ Immortal(Heap, n)
        /\ bin_zle_new(Heap, w, <<n>>).ret = 1
        /\ bin_zle_new(Heap, w, <<n>>).h.w = widgets

\* C16: addzlefunction returns NULL, allocates no widget and leaves the
\* registry as it was when the name begins with a dot or the dotted name
\* is an enabled immortal thingy, and in no other case.
C16_NativeRejected ==
    \A name \in Names, flags \in IntFlags, w \in FreeAddrs :
        LET r == addzlefunction(Heap, w, name, "ifunc", flags)
            taken == Enabled(Heap, dotn(name)) /\ Immortal(Heap, dotn(name))
        IN  /\ (r.ret = NULLW) <=> (IsDotted(name) \/ taken)
            /\ r.ret = NULLW => r.h = Heap
            /\ r.ret # NULLW => r.ret = w /\ w \in DOMAIN r.h.w

\* .a is an enabled immortal name, a has been bound to a user widget since,
\* and a cannot be registered again
C16_Witness ==
    \E w \in FreeAddrs :
        /\ Enabled(Heap, ".a") /\ Immortal(Heap, ".a")
        /\ Enabled(Heap, "a") /\ thingytab["a"].widget # thingytab[".a"].widget
        /\ addzlefunction(Heap, w, "a", "ifunc", {}).ret = NULLW

\* C17: deletezlefunction of a widget with n names makes exactly n
\* unbindwidget calls and returns; afterwards each of the n names is gone
\* from the registry or disabled and not immortal, the widget is freed,
\* and the other names and widgets are as they were.
C17_NativeDeregistration ==
    \A w \in NativeWidgets :
        LET B == Bound(Heap, w)
            r == deletezlefunction(Heap, w)
        IN  /\ r.unbinds = Cardinality(B)
            /\ \A t \in B : t \in DOMAIN r.h.t => ~Enabled(r.h, t) /\ ~Immortal(r.h, t)
            /\ r.h.w = RemoveKey(widgets, w)
            /\ \A x \in DOMAIN thingytab \ B :
                  x \in DOMAIN r.h.t /\ r.h.t[x] = thingytab[x]
            /\ DOMAIN r.h.t \subseteq DOMAIN thingytab

\* a native widget with its dotted name, its plain name and an alias: the
\* three unbinds leave it no name and free it
C17_Witness ==
    \E w \in NativeWidgets :
        /\ Cardinality(Bound(Heap, w)) = 3
        /\ deletezlefunction(Heap, w).unbinds = 3
        /\ Bound(deletezlefunction(Heap, w).h, w) = {}
        /\ w \notin DOMAIN deletezlefunction(Heap, w).h.w

\* C18: zle -l with names returns 0 iff every name is enabled and, without
\* -a, names a widget that is not internal; a name that is registered but
\* disabled counts as not found, with -a and without.  A read of freed
\* storage is taken to find WIDGET_INT set.
C18_ListExistence ==
    \A args \in ListArgs \ {<<>>}, opt_a \in BOOLEAN :
        LET r == bin_zle_list(Heap, args, opt_a, TRUE)
        IN  (r.ret = 0) <=>
               \A i \in 1..Len(args) :
                  /\ Enabled(Heap, args[i])
                  /\ opt_a \/ "WIDGET_INT" \notin widgets[thingytab[args[i]].widget].flags

\* the name t, bound to the widget old in h, is in g bound to the widget
\* new and on its cycle only; old is freed iff t was its only name, else
\* it keeps its other names on one cycle that starts at one of them; the
\* reference count of t is as it was
Moved(h, g, t, old, new) ==
    /\ Enabled(g, t) /\ g.t[t].widget = new
    /\ new \in DOMAIN g.w
    /\ OneCycle(g, t)
    /\ \A x \in DOMAIN g.t :
          (Enabled(g, x) /\ g.t[x].widget # new) => t \notin orbit(g, x, {})
    /\ (old \notin DOMAIN g.w) <=> (Bound(h, old) = {t})
    /\ Bound(h, old) # {t} =>
          /\ Bound(g, old) = Bound(h, old) \ {t}
          /\ g.w[old].first \in Bound(g, old)
          /\ \A x \in Bound(g, old) : OneCycle(g, x)
    /\ g.t[t].rc = h.t[t].rc

\* C19: when zle -N, zle -A or zle -C binds a name that is not immortal
\* and is enabled on another widget, the name moves: afterwards it is on
\* the cycle of the new widget and on no other, the old widget is freed
\* iff the name was its only one and else keeps its other names and a
\* first name among them, and the reference count of the name is as
\* before.
C19_RebindMoves ==
    \A t \in DOMAIN thingytab :
        (Enabled(Heap, t) /\ ~Immortal(Heap, t)) =>
           LET old == thingytab[t].widget
           IN  /\ \A w \in FreeAddrs, args \in {<<t>>, <<t, "myfunc">>} :
                     LET r == bin_zle_new(Heap, w, args)
                     IN  r.ret = 0 /\ Moved(Heap, r.h, t, old, w)
               /\ \A src \in Names :
                     (Enabled(Heap, src) /\ thingytab[src].widget # old) =>
                        LET r == bin_zle_link(Heap, <<src, t>>)
                        IN  r.ret = 0
                            /\ Moved(Heap, r.h, t, old, thingytab[src].widget)
               /\ \A w \in FreeAddrs, base \in BaseArgs, garbage \in BOOLEAN :
                     LET r == bin_zle_complete(Heap, w, <<t, base, "postfn">>,
                                               TRUE, garbage)
                     IN  r.ret = 0 => Moved(Heap, r.h, t, old, w)

\* a name shares a widget with another name and can be linked to a third
\* name's widget, and a completion widget can be bound to it as well
C19_Witness ==
    \E t \in DOMAIN thingytab, src \in DOMAIN thingytab, w \in FreeAddrs :
        /\ Enabled(Heap, t) /\ ~Immortal(Heap, t)
        /\ Enabled(Heap, src) /\ thingytab[src].widget # thingytab[t].widget
        /\ Cardinality(Bound(Heap, thingytab[t].widget)) = 2
        /\ bin_zle_link(Heap, <<src, t>>).ret = 0
        /\ bin_zle_complete(Heap, w, <<t, "a", "postfn">>, TRUE, FALSE).ret = 0

\* C21: while a call of a widget is in flight the thingy it resolved stays
\* in the registry, with a reference count that covers every invocation in
\* flight and its binding, whatever the widget deletes or rebinds; the
\* return releases exactly one reference and the record goes only when
\* that was the last one; a call that fails on a name that was not in the
\* registry leaves the registry as it was.
C21_ReentrantInvoke ==
    /\ \A i \in DOMAIN stack :
          LET n == stack[i].wname
          IN  /\ n \in DOMAIN thingytab
              /\ thingytab[n].rc >= InFlight(stack, n)
                                    + (IF Enabled(Heap, n) THEN 1 ELSE 0)
    /\ stack # <<>> =>
          LET f == stack[Len(stack)]
              r == bin_zle_call_return(Heap, zmod, curkeymapname, f)
          IN  /\ r.h.w = widgets
              /\ IF thingytab[f.wname].rc = 1
                 THEN r.h.t = RemoveKey(thingytab, f.wname)
                 ELSE r.h.t = [thingytab EXCEPT ![f.wname].rc = @ - 1]
    /\ \A args \in CallArgs \ {<<>>} :
          args[1] \notin DOMAIN thingytab =>
              LET r == bin_zle_call(Heap, Ed, args)
              IN  r.kind = "returned" /\ r.ret = 1 /\ r.h = Heap

\* the widget in flight deleted its own name: the record is disabled, held
\* by the invocation alone, and goes when the call returns
C21_Witness ==
    /\ stack # <<>>
    /\ stack[Len(stack)].wname = "a"
    /\ "a" \in DOMAIN thingytab
    /\ ~Enabled(Heap, "a")
    /\ thingytab["a"].rc = 1
    /\ "a" \notin DOMAIN bin_zle_call_return(Heap, zmod, curkeymapname,
                                             stack[Len(stack)]).h.t

\* C22: the first pointer of every live widget is one of the names bound
\* to it; the predecessor search of unbindwidget, started there, ends
\* within one turn of the cycle at the thingy whose samew is the one being
\* unbound; and when names remain, the unbind leaves first at that
\* predecessor, a name still bound to the widget.
C22_RepresentativePointer ==
    /\ \A w \in DOMAIN widgets : widgets[w].first \in Bound(Heap, w)
    /\ \A t \in DOMAIN thingytab :
          (Enabled(Heap, t) /\ thingytab[t].samew # t) =>
              LET w == thingytab[t].widget
                  p == findpred(Heap, widgets[w].first, t,
                                Cardinality(Bound(Heap, w)))
                  r == unbindwidget(Heap, t, TRUE)
              IN  /\ p # NULLT
                  /\ p # t
                  /\ thingytab[p].samew = t
                  /\ w \in DOMAIN r.h.w
                  /\ r.h.w[w].first = p
                  /\ r.h.w[w].first \in Bound(r.h, w)
                  /\ t \notin Bound(r.h, w)

\* a widget with three names whose first pointer is the name being unbound
C22_Witness ==
    \E t \in DOMAIN thingytab :
        /\ Enabled(Heap, t)
        /\ Cardinality(Bound(Heap, thingytab[t].widget)) = 3
        /\ widgets[thingytab[t].widget].first = t
        /\ unbindwidget(Heap, t, TRUE).h.w[thingytab[t].widget].first # t

\* the names a module's internal widget is registered under: the name
\* given to addzlefunction and the same name with a dot
NativeNames == {n \in Names : ~IsDotted(n)} \cup {dotn(n) : n \in {m \in Names : ~IsDotted(m)}}

\* C23: once the thingy table has been emptied, every user-defined and
\* every completion widget is destroyed and none of their names is bound,
\* and every thingy that is still enabled is a built-in entry: no name
\* that a user created, such as an alias of an internal widget, remains
\* bound.
C23_Teardown ==
    unloaded =>
        /\ \A w \in DOMAIN widgets : "WIDGET_INT" \in widgets[w].flags
        /\ \A t \in DOMAIN thingytab :
              Enabled(Heap, t) =>
                  /\ thingytab[t].widget \in DOMAIN widgets
                  /\ t \in NativeNames

\* the registry g still has the thingy n that a caller holds a reference
\* to, with that reference counted, and the caller's release removes it
\* only if it is disabled
Held(g, n) ==
    /\ n \in DOMAIN g.t
    /\ g.t[n].rc >= 1 + (IF Enabled(g, n) THEN 1 ELSE 0)
    /\ n \notin DOMAIN unrefthingy(g, n).t => ~Enabled(g, n)

\* C24: every thingy in the registry has a reference count of at least
\* one, and of at least the number of its owners (its binding and the
\* invocations in flight); what an enabled thingy and a live widget point
\* to is in the registry and enabled; and a thingy that a caller retains
\* with rthingy stays in the registry while the name is deleted, rebound
\* or deregistered, the caller's one release removing it only when it is
\* disabled.
C24_EnabledNeverDestroyed ==
    /\ \A t \in DOMAIN thingytab :
          /\ thingytab[t].rc >= 1
          /\ Leaked(Heap, stack, t) >= 0
          /\ Enabled(Heap, t) =>
                /\ Enabled(Heap, thingytab[t].samew)
                /\ thingytab[t].widget \in DOMAIN widgets
                /\ Enabled(Heap, widgets[thingytab[t].widget].first)
    /\ \A n \in Names, w \in FreeAddrs :
          LET h1 == rthingy(Heap, n)
          IN  /\ Held(h1, n)
              /\ unrefthingy(h1, n) = Heap
              /\ Held(bin_zle_del(h1, <<n>>).h, n)
              /\ Held(bin_zle_new(h1, w, <<n, "myfunc">>).h, n)
              /\ (Enabled(Heap, n) /\ thingytab[n].widget \in NativeWidgets) =>
                    Held(deletezlefunction(h1, thingytab[n].widget).h, n)

\* a caller holds a, one of two names of a widget; zle -D a disables it and
\* leaves it in the registry, and the caller's release removes it
C24_Witness ==
    /\ Enabled(Heap, "a")
    /\ thingytab["a"].samew # "a"
    /\ LET r == bin_zle_del(rthingy(Heap, "a"), <<"a">>)
       IN  /\ r.ret = 0
           /\ "a" \in DOMAIN r.h.t
           /\ ~Enabled(r.h, "a")
           /\ Enabled(r.h, thingytab["a"].samew)
           /\ "a" \notin DOMAIN unrefthingy(r.h, "a").t

\* C25: a thingy with TH_IMMORTAL is enabled and names a live internal
\* widget, so that no disabled thingy is immortal; and after
\* deletezlefunction each name the widget had, also one that a caller's
\* reference keeps in the registry, is not immortal and zle -N binds it
\* again.
C25_ImmortalImpliesEnabled ==
    /\ \A t \in DOMAIN thingytab :
          Immortal(Heap, t) =>
              /\ Enabled(Heap, t)
              /\ thingytab[t].widget \in DOMAIN widgets
              /\ "WIDGET_INT" \in widgets[thingytab[t].widget].flags
    /\ \A w \in NativeWidgets :
          \A n \in Bound(Heap, w) :
              LET r == deletezlefunction(Heap, w)
                  k == deletezlefunction(rthingy(Heap, n), w)
              IN  /\ ~Immortal(r.h, n)
                  /\ bin_zle_new(r.h, w, <<n>>).ret = 0
                  /\ Enabled(bin_zle_new(r.h, w, <<n>>).h, n)
                  /\ n \in DOMAIN k.h.t
                  /\ ~Enabled(k.h, n)
                  /\ ~Immortal(k.h, n)
                  /\ bin_zle_new(k.h, w, <<n>>).ret = 0
                  /\ Enabled(bin_zle_new(k.h, w, <<n>>).h, n)

\* the immortal dotted name of a native widget, held by a caller, is left
\* disabled by the deregistration and zle -N binds it again
C25_Witness ==
    \E w \in NativeWidgets :
        \E n \in Bound(Heap, w) :
            /\ Immortal(Heap, n)
            /\ LET k == deletezlefunction(rthingy(Heap, n), w)
               IN  /\ n \in DOMAIN k.h.t
                   /\ ~Enabled(k.h, n)
                   /\ bin_zle_new(k.h, w, <<n>>).ret = 0

====
